---- MODULE Spec2Model ----
(***************************************************************************)
(* Model of the two numpy scripts of the repository:                       *)
(*   src/cross-entropy.py   cross_entropy(Y, P)                            *)
(*   src/softmax.py         softmax(L)                                     *)
(*                                                                         *)
(* Numbers.  A Python number of a caller's list is [kind |-> "pynum"];     *)
(* a float64 is [kind |-> "fin" | "pinf" | "ninf" | "nan"].  Finite        *)
(* arithmetic is exact, the IEEE-754 special values follow numpy's rules   *)
(* (log(0) = -inf, 0 * inf = nan, inf - inf = nan, inf / inf = nan,        *)
(* 0 / 0 = nan, exp overflows to inf and underflows to 0).  Rounding of    *)
(* finite results (about 1e-16 relative) is not modelled.                  *)
(*                                                                         *)
(* cross_entropy: inputs are counted in tenths (Unit), logarithms in       *)
(* thousandths (LnMilli), so a product Y * log(P) and the loss are         *)
(* counted in 1/10000.                                                     *)
(*                                                                         *)
(* softmax: inputs are integers; exp(x) is kept as the power e^x itself,   *)
(* a sum of exponentials as the bag of its exponents, a quotient as        *)
(* numerator and denominator: two such values are compared exactly.        *)
(* The inputs drawn are either moderate or far beyond exp's range, so a    *)
(* sum of finite exponentials never overflows by itself.                   *)
(*                                                                         *)
(* np.float_ is the numpy 1.x alias of np.float64 the source is written    *)
(* for; by default numpy warns on log(0), overflow and invalid operations  *)
(* and goes on with the special value.                                     *)
(***************************************************************************)
EXTENDS Integers, Sequences, FiniteSets, Bags, TLC

VARIABLES
    Y,       \* the caller's label list, argument of cross_entropy
    P,       \* the caller's probability list, argument of cross_entropy
    L,       \* the caller's list, argument of softmax
    stdout,  \* the console: the values printed so far, in order
    calls    \* the calls made so far: [fn, ret, err, out] each

vars == <<Y, P, L, stdout, calls>>

(***************************** bounds **************************************)
\* Longest argument list of a single call.
MaxLen == 3
\* Longest argument list of a session of several calls.
MaxSessionLen == 1
\* Most calls of one session.
MaxCalls == 3

(***************************** values **************************************)
\* Fixed-point denominator of cross_entropy's inputs: 0.8 is 8, 1 is 10.
Unit == 10

PyNum(v) == [kind |-> "pynum", v |-> v]
Fin(v) == [kind |-> "fin", v |-> v]
PInf == [kind |-> "pinf", v |-> 0]
NInf == [kind |-> "ninf", v |-> 0]
NaN == [kind |-> "nan", v |-> 0]
\* Python's None, the value of a call whose body runs off its end.
None == [kind |-> "None", v |-> 0]
\* No console line: the call raised before its print.
Nothing == [kind |-> "nothing", v |-> 0]

NoError == "none"
ValueError == "ValueError"

\* Labels 0, 0.5, 1 and the out-of-range 2, in tenths.
YVals == {0, 5, 10, 20}
\* Probabilities 0, 0.1, 0.7, 0.8, 1, in tenths.
PVals == {0, 1, 7, 8, 10}
\* Inputs of softmax: moderate ones, and ones beyond exp's range.
Logits == {-1000, 0, 1, 2, 1000}

ListsOf(S, n) == UNION {[1..k -> {PyNum(v) : v \in S}] : k \in 0..n}

(************************ float64 arithmetic *******************************)
Sign(x) ==
    CASE x.kind = "pinf" -> 1
      [] x.kind = "ninf" -> -1
      [] OTHER -> IF x.v > 0 THEN 1 ELSE IF x.v < 0 THEN -1 ELSE 0

IsInf(x) == x.kind \in {"pinf", "ninf"}

FNeg(x) ==
    CASE x.kind = "fin" -> Fin(-x.v)
      [] x.kind = "pinf" -> NInf
      [] x.kind = "ninf" -> PInf
      [] OTHER -> NaN

FAdd(a, b) ==
    CASE a.kind = "nan" \/ b.kind = "nan" -> NaN
      [] IsInf(a) /\ IsInf(b) -> IF a.kind = b.kind THEN a ELSE NaN
      [] IsInf(a) -> a
      [] IsInf(b) -> b
      [] OTHER -> Fin(a.v + b.v)

FSub(a, b) == FAdd(a, FNeg(b))

FMul(a, b) ==
    CASE a.kind = "nan" \/ b.kind = "nan" -> NaN
      [] IsInf(a) \/ IsInf(b) ->
            IF Sign(a) * Sign(b) = 0 THEN NaN
            ELSE IF Sign(a) * Sign(b) > 0 THEN PInf ELSE NInf
      [] OTHER -> Fin(a.v * b.v)

\* 1000 * ln(k/10), rounded, for k = 1..10.
LnMilli == <<-2303, -1609, -1204, -916, -693, -511, -357, -223, -105, 0>>

\* np.log of a value counted in tenths: -inf at 0 and nan below 0 (numpy
\* warns and goes on).
FLog(x) ==
    CASE x.kind = "nan" -> NaN
      [] x.kind = "ninf" -> NaN
      [] x.kind = "pinf" -> PInf
      [] OTHER -> IF x.v < 0 THEN NaN
                  ELSE IF x.v = 0 THEN NInf
                  ELSE Fin(LnMilli[x.v])

(************************** numpy arrays ***********************************)
\* np.float_(lst): a new float64 array of the list's elements.
Float_(lst) ==
    [i \in 1..Len(lst) |-> IF lst[i].kind = "pynum" THEN Fin(lst[i].v) ELSE lst[i]]

\* Whether numpy can broadcast two one-dimensional shapes.
CanBroadcast(n, m) == n = m \/ n = 1 \/ m = 1

BroadcastLen(n, m) == IF n = 1 THEN m ELSE n

\* Element i of a one-dimensional array stretched to a broadcast shape.
At(A, i) == IF Len(A) = 1 THEN A[1] ELSE A[i]

ArrMul(A, B) ==
    [i \in 1..BroadcastLen(Len(A), Len(B)) |-> FMul(At(A, i), At(B, i))]

ArrAdd(A, B) ==
    [i \in 1..BroadcastLen(Len(A), Len(B)) |-> FAdd(At(A, i), At(B, i))]

\* 1 - A and np.log(A), element by element.
OneMinus(A) == [i \in 1..Len(A) |-> FSub(Fin(Unit), A[i])]

ArrLog(A) == [i \in 1..Len(A) |-> FLog(A[i])]

RECURSIVE NpSum(_)
NpSum(A) ==
    IF Len(A) = 0 THEN Fin(0)
    ELSE FAdd(NpSum(SubSeq(A, 1, Len(A) - 1)), A[Len(A)])

(************************** cross_entropy **********************************)
\* The assignment Y = np.float_(Y) binds the function's own name Y to the
\* new array; the object the caller passed is not written.
RebindInPlace(callerList, newValue) == newValue

Rebind(callerList, newValue) == callerList

\* Y * np.log(P) + (1 - Y) * np.log(1 - P), for broadcastable shapes.
CrossEntropyTerms(Yf, Pf) ==
    ArrAdd(ArrMul(Yf, ArrLog(Pf)), ArrMul(OneMinus(Yf), ArrLog(OneMinus(Pf))))

\* -np.sum(...): the value the function prints.
CrossEntropyLossUnnegated(Yl, Pl) ==
    NpSum(CrossEntropyTerms(Float_(Yl), Float_(Pl)))

CrossEntropyLoss(Yl, Pl) ==
    FNeg(NpSum(CrossEntropyTerms(Float_(Yl), Float_(Pl))))

\* The outcome of cross_entropy(Yl, Pl): the arithmetic raises ValueError
\* on shapes that do not broadcast; otherwise the loss is printed and the
\* function ends without a return statement.
CrossEntropyOutcome(Yl, Pl) ==
    IF CanBroadcast(Len(Yl), Len(Pl))
    THEN [fn |-> "cross_entropy", ret |-> None, err |-> NoError,
          out |-> CrossEntropyLoss(Yl, Pl)]
    ELSE [fn |-> "cross_entropy", ret |-> None, err |-> ValueError,
          out |-> Nothing]

(****************************** softmax ************************************)
\* np.exp(x) is inf above ExpMaxArg and 0.0 below ExpMinArg (float64).
ExpMaxArg == 709
ExpMinArg == -745

Zero == [kind |-> "fin", v |-> EmptyBag]
Overflow == [kind |-> "pinf", v |-> EmptyBag]

\* np.exp of one element: the power e^x, as the bag holding the exponent x.
Exp(x) ==
    IF x.v > ExpMaxArg THEN Overflow
    ELSE IF x.v < ExpMinArg THEN Zero
    ELSE [kind |-> "fin", v |-> SetToBag({x.v})]

NpExp(lst) == [i \in 1..Len(lst) |-> Exp(lst[i])]

\* expL.sum(): a sum of non-negative terms; inf as soon as one term is.
RECURSIVE ExpSum(_)
ExpSum(A) ==
    IF Len(A) = 0 THEN Zero
    ELSE LET rest == ExpSum(SubSeq(A, 1, Len(A) - 1))
             last == A[Len(A)]
         IN IF rest.kind = "pinf" \/ last.kind = "pinf" THEN Overflow
            ELSE [kind |-> "fin", v |-> rest.v (+) last.v]

QNaN == [kind |-> "nan", num |-> EmptyBag, den |-> EmptyBag]
QInf == [kind |-> "pinf", num |-> EmptyBag, den |-> EmptyBag]
QZero == [kind |-> "fin", num |-> EmptyBag, den |-> SetToBag({0})]

\* a / s for a >= 0 and s >= 0: 0/0 and inf/inf are nan, x/inf is 0.
Divide(a, s) ==
    CASE a.kind = "pinf" /\ s.kind = "pinf" -> QNaN
      [] a.kind = "pinf" -> QInf
      [] s.kind = "pinf" -> QZero
      [] s.v = EmptyBag -> IF a.v = EmptyBag THEN QNaN ELSE QInf
      [] OTHER -> [kind |-> "fin", num |-> a.v, den |-> s.v]

\* np.divide(expL, expL.sum()): the array the function prints.
SoftmaxValue(lst) ==
    LET expL == NpExp(lst)
        total == ExpSum(expL)
    IN [i \in 1..Len(lst) |-> Divide(expL[i], total)]

NdArray(a) == [kind |-> "ndarray", v |-> a]

\* The outcome of softmax(lst): the array is printed and the function ends
\* without a return statement; no input makes it raise.
SoftmaxOutcome(lst) ==
    [fn |-> "softmax", ret |-> None, err |-> NoError,
     out |-> NdArray(SoftmaxValue(lst))]

(****************************** actions ************************************)
\* print(...): one more console line, unless the call raised before it.
WriteLine(console, outcome) ==
    IF outcome.err = NoError THEN Append(console, outcome.out) ELSE console

\* An uncaught exception ends the script: no call follows it.
Running == \A i \in 1..Len(calls) : calls[i].err = NoError

\* One call cross_entropy(Y, P) on the caller's lists.
CallCrossEntropy ==
    /\ Running
    /\ Len(calls) < MaxCalls
    /\ LET outcome == CrossEntropyOutcome(Y, P)
       IN /\ calls' = Append(calls, outcome)
          /\ stdout' = WriteLine(stdout, outcome)
    /\ Y' = Rebind(Y, Float_(Y))
    /\ P' = Rebind(P, Float_(P))
    /\ UNCHANGED L

\* One call softmax(L) on the caller's list.
CallSoftmax ==
    /\ Running
    /\ Len(calls) < MaxCalls
    /\ LET outcome == SoftmaxOutcome(L)
       IN /\ calls' = Append(calls, outcome)
          /\ stdout' = WriteLine(stdout, outcome)
    /\ UNCHANGED <<Y, P, L>>

\* The script cross-entropy.py: the function is called once, at top level.
CrossEntropyScript == calls = <<>> /\ CallCrossEntropy

\* The script softmax.py: the function is called once, at top level.
SoftmaxScript == calls = <<>> /\ CallSoftmax

(*************************** specifications ********************************)
\* cross_entropy alone, on every pair of lists up to MaxLen.
InitCrossEntropy ==
    /\ Y \in ListsOf(YVals, MaxLen)
    /\ P \in ListsOf(PVals, MaxLen)
    /\ L = <<>>
    /\ stdout = <<>>
    /\ calls = <<>>

SpecCrossEntropy == InitCrossEntropy /\ [][CrossEntropyScript]_vars

\* softmax alone, on every list up to MaxLen.
InitSoftmax ==
    /\ Y = <<>>
    /\ P = <<>>
    /\ L \in ListsOf(Logits, MaxLen)
    /\ stdout = <<>>
    /\ calls = <<>>

SpecSoftmax == InitSoftmax /\ [][SoftmaxScript]_vars

\* A session: a caller holding three lists calls the two functions in any
\* order, up to MaxCalls times.
Init ==
    /\ Y \in ListsOf(YVals, MaxSessionLen)
    /\ P \in ListsOf(PVals, MaxSessionLen)
    /\ L \in ListsOf(Logits, MaxSessionLen)
    /\ stdout = <<>>
    /\ calls = <<>>

Next == CallCrossEntropy \/ CallSoftmax

Spec == Init /\ [][Next]_vars

\* The call just made, and whether one was made.
Called == Len(calls) > 0
Last == calls[Len(calls)]

LastIs(fn) == Called /\ Last.fn = fn

(*************************** cross_entropy claims **************************)
FloatKinds == {"fin", "pinf", "ninf", "nan"}

\* C1: for equal-length Y and P with N >= 1, the call cross_entropy(Y, P)
\* returns the loss -sum(Y*ln(P) + (1-Y)*ln(1-P)) to its caller: the value
\* of the call is that float, not None.
C1_ReturnsLoss ==
    (LastIs("cross_entropy") /\ Len(Y) = Len(P) /\ Len(Y) >= 1)
        => /\ Last.ret.kind \in FloatKinds
           /\ Last.ret = CrossEntropyLoss(Y, P)

\* C3: for len(Y) # len(P), one of them of length 1 included,
\* cross_entropy(Y, P) fails with an error and produces no numeric result.
C3_MismatchRaises ==
    (LastIs("cross_entropy") /\ Len(Y) # Len(P))
        => /\ Last.err # NoError
           /\ Last.out.kind = "nothing"
           /\ stdout = <<>>

\* Some P_i is exactly 0 or exactly 1.
AtBoundary(Pl) == \E i \in 1..Len(Pl) : Pl[i].v \in {0, Unit}

\* C5: when some P_i is exactly 0 or 1 the call yields a finite loss:
\* no error, no infinity, no NaN.
C5_BoundaryFinite ==
    (LastIs("cross_entropy") /\ Len(Y) = Len(P) /\ AtBoundary(P))
        => /\ Last.err = NoError
           /\ Last.out.kind = "fin"

\* Equal lengths, every Y_i in [0,1], every P_i strictly inside (0,1).
ValidInputs ==
    /\ Len(Y) = Len(P)
    /\ \A i \in 1..Len(Y) : 0 <= Y[i].v /\ Y[i].v <= Unit
    /\ \A i \in 1..Len(P) : 0 < P[i].v /\ P[i].v < Unit

\* C6: for all valid inputs the loss cross_entropy(Y, P) computes is a
\* finite number >= 0.
C6_LossNonNegative ==
    (LastIs("cross_entropy") /\ ValidInputs)
        => /\ Last.err = NoError
           /\ Last.out.kind = "fin"
           /\ Last.out.v >= 0

\* cross_entropy([1, 1, 0], [0.8, 0.7, 0.1]) has printed 0.6850.
C6_Witness ==
    /\ LastIs("cross_entropy")
    /\ ValidInputs
    /\ Y = <<PyNum(10), PyNum(10), PyNum(0)>>
    /\ P = <<PyNum(8), PyNum(7), PyNum(1)>>
    /\ stdout = <<Fin(6850)>>

(****************************** softmax claims *****************************)
\* C2: for non-empty L, the call softmax(L) returns to its caller a
\* sequence of len(L) elements.
C2_ReturnsSameLength ==
    (LastIs("softmax") /\ Len(L) >= 1)
        => /\ Last.ret.kind = "ndarray"
           /\ Len(Last.ret.v) = Len(L)

\* C4: softmax on the empty sequence fails with an error and never
\* produces an (empty) output sequence.
C4_EmptyRaises ==
    (LastIs("softmax") /\ L = <<>>)
        => /\ Last.err # NoError
           /\ Last.out.kind = "nothing"

\* 0 <= q <= 1 for a quotient q of sums of exponentials.
InUnitInterval(q) == q.kind = "fin" /\ q.num \sqsubseteq q.den

RECURSIVE NumSum(_)
NumSum(A) ==
    IF Len(A) = 0 THEN EmptyBag
    ELSE NumSum(SubSeq(A, 1, Len(A) - 1)) (+) A[Len(A)].num

\* The elements of a non-empty array add up to exactly 1.
SumsToOne(A) ==
    /\ \A i \in 1..Len(A) : A[i].kind = "fin" /\ A[i].den = A[1].den
    /\ NumSum(A) = A[1].den

\* C7: for every non-empty L, of any magnitude, every value softmax(L)
\* produces lies in [0,1] and the values sum to 1.
C7_Distribution ==
    (LastIs("softmax") /\ Len(L) >= 1)
        => /\ Last.err = NoError
           /\ \A i \in 1..Len(L) : InUnitInterval(Last.out.v[i])
           /\ SumsToOne(Last.out.v)

\* The bag B with k added to every exponent: B times e^k.
BagShift(B, k) == [x \in {y + k : y \in DOMAIN B} |-> B[x - k]]

\* Two quotients e^a / S and e^b / T (or 0 / S and 0 / T) are the same
\* number.
SameNumber(q, r) ==
    /\ q.kind = "fin"
    /\ r.kind = "fin"
    /\ IF q.num = EmptyBag \/ r.num = EmptyBag
       THEN q.num = r.num
       ELSE LET a == CHOOSE x \in DOMAIN q.num : TRUE
                b == CHOOSE x \in DOMAIN r.num : TRUE
            IN BagShift(r.den, a) = BagShift(q.den, b)

\* Constants added to every element of a softmax input.
Shifts == {-1, 1, 1000}

Shifted(lst, c) == [i \in 1..Len(lst) |-> PyNum(lst[i].v + c)]

\* C8: softmax is invariant under a constant shift of its input, also when
\* the shifted elements are large: softmax(L) = softmax([x + c for x in L]).
C8_ShiftInvariant ==
    (LastIs("softmax") /\ Len(L) >= 1)
        => \A c \in Shifts : \A i \in 1..Len(L) :
              SameNumber(Last.out.v[i], SoftmaxValue(Shifted(L, c))[i])

AllEqual(lst) == \A i, j \in 1..Len(lst) : lst[i] = lst[j]

\* The quotient q is 1/n: n times its numerator is its denominator.
IsOneOver(q, n) ==
    /\ q.kind = "fin"
    /\ q.num # EmptyBag
    /\ q.den = [x \in DOMAIN q.num |-> n * q.num[x]]

\* C9: for non-empty L of N equal elements softmax(L) is uniform, every
\* element 1/N; for a single element the output is [1.0] whatever its value.
C9_Uniform ==
    (LastIs("softmax") /\ Len(L) >= 1 /\ AllEqual(L))
        => \A i \in 1..Len(L) : IsOneOver(Last.out.v[i], Len(L))

(****************************** session claims *****************************)
\* The call made by this step has the outcome of every earlier call of the
\* same function (the argument lists being what they were).
SameAsBefore ==
    \A i \in 1..Len(calls) :
        calls[i].fn = calls'[Len(calls')].fn => calls[i] = calls'[Len(calls')]

====
